---- MODULE Spec2Model ----
(***************************************************************************)
(* Model of the S3-triggered image labelling lambda (src/main.go).         *)
(*                                                                         *)
(* HandleRequest starts one goroutine per record of the S3 event and waits *)
(* on a sync.WaitGroup.  Every goroutine runs handleImage on a pointer to  *)
(* the range variable `record`: classify the key, GetObject, image.Decode, *)
(* addLabel, encode by extension, PutObject.  A failure calls log.Fatal,   *)
(* which ends the process with os.Exit.                                    *)
(*                                                                         *)
(* Strings that the code inspects (keys, extensions, content types) are    *)
(* sequences of one-character strings, so that suffix tests, lower-casing  *)
(* and path.Base are computed as the code computes them.                   *)
(***************************************************************************)
EXTENDS Integers, Sequences, FiniteSets, TLC

VARIABLES
    s3Event,      \* s3Event.Records: the batch handed to HandleRequest
    hpc,          \* position of HandleRequest: "loop" (lines 142-146), "returned"
    idx,          \* number of loop iterations of line 142 executed so far
    record,       \* the range variable `record` of line 142 (one variable, shared)
    wg,           \* counter of the sync.WaitGroup
    pc,           \* position of each goroutine running handleImage
    s3Entity,     \* each goroutine's local copy of record.S3
    ext,          \* extension returned by isImageFile (line 71)
    img,          \* image returned by image.Decode (line 88)
    labeledImage, \* image returned by addLabel (lines 96, 99)
    buf,          \* the encoded buffer (lines 103-116): the codec that wrote
                  \* it, the format the image was decoded from, its label
    failure,      \* which call of the goroutine returned an error, if any
    exited,       \* os.Exit has been called (by log.Fatal)
    getLog,       \* GetObject requests issued
    putLog,       \* PutObject requests issued
    ckey,         \* classifier harness: the key under test
    cres,         \* classifier harness: isImageFile(ckey)
    cout,         \* classifier harness: the PutObject key built from ckey
    lcall         \* addLabel harness: one call of addLabel, its argument
                  \* img, its local rgba and its position

vars == <<s3Event, hpc, idx, record, wg, pc, s3Entity, ext, img,
          labeledImage, buf, failure, exited, getLog, putLog, ckey, cres,
          cout, lcall>>

workerVars == <<pc, s3Entity, ext, img, labeledImage, buf, failure>>
harnessVars == <<ckey, cres, cout, lcall>>

----------------------------------------------------------------------------
(* Bounds *)

\* largest number of records in one S3 event
MaxBatch == 2

\* longest key the classifier harness builds
MaxKeyLen == 5

----------------------------------------------------------------------------
(* Strings *)

UpperLetters == <<"A","B","C","D","E","F","G","H","I","J","K","L","M",
                  "N","O","P","Q","R","S","T","U","V","W","X","Y","Z">>
LowerLetters == <<"a","b","c","d","e","f","g","h","i","j","k","l","m",
                  "n","o","p","q","r","s","t","u","v","w","x","y","z">>

\* the lower-case letter of each upper-case letter
UpperToLower ==
    [c \in {UpperLetters[i] : i \in 1..Len(UpperLetters)} |->
        LowerLetters[CHOOSE i \in 1..Len(UpperLetters) : UpperLetters[i] = c]]

\* unicode.ToLower on one character
ToLowerChar(c) == IF c \in DOMAIN UpperToLower THEN UpperToLower[c] ELSE c

\* strings.ToLower
ToLower(s) == [i \in 1..Len(s) |-> ToLowerChar(s[i])]

\* strings.HasSuffix
HasSuffix(s, suffix) ==
    /\ Len(s) >= Len(suffix)
    /\ SubSeq(s, Len(s) - Len(suffix) + 1, Len(s)) = suffix

\* s[n:] of Go, n counted from 0
SliceFrom(s, n) == SubSeq(s, n + 1, Len(s))

\* index (from 1) of the last "/" of s, 0 when there is none
LastSlash(s) ==
    IF \E i \in 1..Len(s) : s[i] = "/"
    THEN CHOOSE i \in 1..Len(s) : s[i] = "/" /\ \A j \in (i+1)..Len(s) : s[j] # "/"
    ELSE 0

RECURSIVE StripTrailingSlashes(_)
StripTrailingSlashes(s) ==
    IF Len(s) > 0 /\ s[Len(s)] = "/"
    THEN StripTrailingSlashes(SubSeq(s, 1, Len(s) - 1))
    ELSE s

\* path.Base
PathBase(p) ==
    IF p = <<>> THEN <<".">>
    ELSE LET q == StripTrailingSlashes(p)
             r == SliceFrom(q, LastSlash(q))
         IN  IF r = <<>> THEN <<"/">> ELSE r

----------------------------------------------------------------------------
(* isImageFile, lines 54-63 *)

supportedExtensions ==
    << <<".","j","p","g">>, <<".","j","p","e","g">>, <<".","p","n","g">> >>

RECURSIVE isImageFileFrom(_, _)
isImageFileFrom(key, i) ==
    IF i > Len(supportedExtensions) THEN <<FALSE, <<>>>>
    ELSE IF HasSuffix(ToLower(key), supportedExtensions[i])
         THEN <<TRUE, SliceFrom(supportedExtensions[i], 1)>>
         ELSE isImageFileFrom(key, i + 1)

\* the suffix test applied to the key as given, without strings.ToLower
RECURSIVE isImageFileExactFrom(_, _)
isImageFileExactFrom(key, i) ==
    IF i > Len(supportedExtensions) THEN <<FALSE, <<>>>>
    ELSE IF HasSuffix(key, supportedExtensions[i])
         THEN <<TRUE, SliceFrom(supportedExtensions[i], 1)>>
         ELSE isImageFileExactFrom(key, i + 1)

isImageFileExact(key) == isImageFileExactFrom(key, 1)

isImageFile(key) == isImageFileFrom(key, 1)

----------------------------------------------------------------------------
(* The inputs: S3 event records and the objects GetObject can return *)

KeyCatPNG == <<"p","h","o","t","o","s","/","c","a","t",".","P","N","G">>
KeyDogJpg == <<"p","h","o","t","o","s","/","d","o","g",".","j","p","g">>
KeyReadme == <<"d","o","c","s","/","r","e","a","d","m","e",".","t","x","t">>

EventRecords ==
    { [Bucket |-> "uploads", Key |-> KeyCatPNG],
      [Bucket |-> "archive", Key |-> KeyDogJpg],
      [Bucket |-> "uploads", Key |-> KeyReadme] }

\* every batch of at most MaxBatch records
Batches == UNION { [1..n -> EventRecords] : n \in 0..MaxBatch }

Workers == 1..MaxBatch

\* formats registered with image.Decode by the imports of lines 9-12
Formats == {"png", "jpeg"}

\* bounds.Max of the images a stored object can decode to
Images ==
    { [Format |-> "png", Max |-> <<10, 10>>],
      [Format |-> "jpeg", Max |-> <<19, 20>>],
      [Format |-> "png", Max |-> <<20, 19>>],
      [Format |-> "jpeg", Max |-> <<800, 600>>] }

\* bytes that no registered decoder accepts
Garbage == [Format |-> "unknown", Max |-> <<0, 0>>]

Bodies == Images \cup {Garbage}

NoImage == [Format |-> "none", Max |-> <<0, 0>>]
NoLabeled == [Max |-> <<0, 0>>, Dot |-> <<0, 0>>, Label |-> ""]
NoBuf == [Codec |-> "none", Decoded |-> "none", Label |-> ""]
NoEntity == [Bucket |-> "", Key |-> <<>>]
NoRecord == [Bucket |-> "", Key |-> <<>>]
NoCall == [pc |-> "none"]

----------------------------------------------------------------------------
(* addLabel, lines 31-52, and the placement of lines 93-101 *)

\* pixels to fixed.Int26_6, line 39
Int26_6 == 64

watermark == "This is watermark"

\* the new RGBA has img's bounds (line 33); the drawer's Dot is the anchor in
\* 26.6 fixed point (line 39)
addLabel(image, x, y, label) ==
    [Max |-> image.Max, Dot |-> <<x * Int26_6, y * Int26_6>>, Label |-> label]

\* the threshold of line 95 and the anchor of line 99
SmallLimit == 20
LabelOffset == 20

\* the anchor of line 99 for every image, without the test of line 95
placementAlways(bounds) == <<LabelOffset, LabelOffset>>

\* the test of line 95 with || in place of &&
placementEither(bounds) ==
    IF bounds[1] < SmallLimit \/ bounds[2] < SmallLimit
    THEN <<0, 0>>
    ELSE <<LabelOffset, LabelOffset>>

\* lines 93-101: the anchor passed to addLabel
placement(bounds) ==
    IF bounds[1] < SmallLimit /\ bounds[2] < SmallLimit
    THEN <<0, 0>>
    ELSE <<LabelOffset, LabelOffset>>

----------------------------------------------------------------------------
(* encoding and storing, lines 103-123 *)

\* the switch without "jpg" in the case of line 111
encoderForNoJpg(e) ==
    IF e = <<"p","n","g">> THEN "png"
    ELSE IF e = <<"j","p","e","g">> THEN "jpeg"
    ELSE "none"

\* the switch of lines 105-116: the encoder a given extension selects
encoderFor(e) ==
    IF e = <<"p","n","g">> THEN "png"
    ELSE IF e = <<"j","p","e","g">> \/ e = <<"j","p","g">> THEN "jpeg"
    ELSE "none"

labeledPrefix == <<"l","a","b","e","l","e","d","-","i","m","a","g","e","s","/">>
imagePrefix == <<"i","m","a","g","e","/">>

\* the whole key kept, without path.Base
outputKeyWholeKey(key) == labeledPrefix \o key

\* line 120
outputKey(key) == labeledPrefix \o PathBase(key)

\* jpg normalised to jpeg in the content type
contentTypeNormalized(e) ==
    imagePrefix \o (IF e = <<"j","p","g">> THEN <<"j","p","e","g">> ELSE e)

\* line 122
contentType(e) == imagePrefix \o e

----------------------------------------------------------------------------
(* sync.WaitGroup *)

\* wg.Add(1) left out of the loop
wgAddNothing(n) == n

wgAdd(n) == n + 1

\* a second Done for the same goroutine
wgDoneTwice(n) == n - 2

wgDone(n) == n - 1
wgWaitDone(n) == n = 0

----------------------------------------------------------------------------
(* Initial state: HandleRequest has been called with some batch *)

Init ==
    /\ s3Event \in Batches
    /\ hpc = "loop"
    /\ idx = 0
    /\ record = NoRecord
    /\ wg = 0
    /\ pc = [w \in Workers |-> "idle"]
    /\ s3Entity = [w \in Workers |-> NoEntity]
    /\ ext = [w \in Workers |-> <<>>]
    /\ img = [w \in Workers |-> NoImage]
    /\ labeledImage = [w \in Workers |-> NoLabeled]
    /\ buf = [w \in Workers |-> NoBuf]
    /\ failure = [w \in Workers |-> "none"]
    /\ exited = FALSE
    /\ getLog = {}
    /\ putLog = {}
    /\ ckey = <<>>
    /\ cres = isImageFile(<<>>)
    /\ cout = outputKey(<<>>)
    /\ lcall = NoCall

----------------------------------------------------------------------------
(* HandleRequest, lines 130-147 *)

\* one iteration of the loop of lines 142-145: the range variable takes the
\* next record, the counter is raised and the goroutine is started with
\* a pointer to the range variable
Launch ==
    /\ ~exited
    /\ hpc = "loop"
    /\ idx < Len(s3Event)
    /\ idx' = idx + 1
    /\ record' = s3Event[idx + 1]
    /\ wg' = wgAdd(wg)
    /\ pc' = [pc EXCEPT ![idx + 1] = "start"]
    /\ UNCHANGED <<s3Event, hpc, s3Entity, ext, img, labeledImage,
                   buf, failure, exited, getLog, putLog, harnessVars>>

\* lines 146-147: with the loop over, wg.Wait blocks until the counter is
\* zero, and HandleRequest returns
Return ==
    /\ ~exited
    /\ hpc = "loop"
    /\ idx = Len(s3Event)
    /\ wgWaitDone(wg)
    /\ hpc' = "returned"
    /\ UNCHANGED <<s3Event, idx, record, wg, workerVars, exited, getLog, putLog,
                   harnessVars>>

----------------------------------------------------------------------------
(* handleImage, lines 65-128 *)

\* line 67: s3Entity := record.S3 reads the range variable through the
\* pointer, with no synchronisation against the loop that writes it.  The
\* copy is not atomic: it ends with the range variable as it is now, and it
\* may have begun while the variable held any record assigned since this
\* goroutine was started, so either field can come from such a record.
racyCopy(w) ==
    LET seen == {s3Event[i] : i \in w..idx}
    IN  {[Bucket |-> r.Bucket, Key |-> record.Key] : r \in seen}
        \cup {[Bucket |-> record.Bucket, Key |-> r.Key] : r \in seen}

\* lines 66-75 without the return of line 74
ClassifyNoReturn(w) ==
    /\ ~exited
    /\ pc[w] = "start"
    /\ \E e \in racyCopy(w) :
          /\ s3Entity' = [s3Entity EXCEPT ![w] = e]
          /\ ext' = [ext EXCEPT ![w] = isImageFile(e.Key)[2]]
    /\ pc' = [pc EXCEPT ![w] = "GetObject"]
    /\ UNCHANGED <<s3Event, hpc, idx, record, wg, img, labeledImage, buf,
                   failure, exited, getLog, putLog, harnessVars>>

\* lines 67-75 without the defer of line 66: the early return leaves the
\* counter as it is
ClassifyNoDone(w) ==
    /\ ~exited
    /\ pc[w] = "start"
    /\ \E e \in racyCopy(w) :
          LET r == isImageFile(e.Key)
          IN  /\ s3Entity' = [s3Entity EXCEPT ![w] = e]
              /\ ext' = [ext EXCEPT ![w] = r[2]]
              /\ pc' = [pc EXCEPT ![w] = IF r[1] THEN "GetObject" ELSE "done"]
    /\ UNCHANGED <<s3Event, hpc, idx, record, wg, img, labeledImage, buf,
                   failure, exited, getLog, putLog, harnessVars>>

\* lines 66-75: copy the record and classify its key; an unsupported key
\* returns at once, and the deferred wg.Done of line 66 runs
Classify(w) ==
    /\ ~exited
    /\ pc[w] = "start"
    /\ \E e \in racyCopy(w) :
          LET r == isImageFile(e.Key)
          IN  /\ s3Entity' = [s3Entity EXCEPT ![w] = e]
              /\ ext' = [ext EXCEPT ![w] = r[2]]
              /\ IF r[1]
                 THEN /\ pc' = [pc EXCEPT ![w] = "GetObject"]
                      /\ wg' = wg
                 ELSE /\ pc' = [pc EXCEPT ![w] = "done"]
                      /\ wg' = wgDone(wg)
    /\ UNCHANGED <<s3Event, hpc, idx, record, img, labeledImage, buf,
                   failure, exited, getLog, putLog, harnessVars>>

\* the locals of a goroutine that has left handleImage's straight path
dropLocals(w) ==
    /\ img' = [img EXCEPT ![w] = NoImage]
    /\ labeledImage' = [labeledImage EXCEPT ![w] = NoLabeled]
    /\ buf' = [buf EXCEPT ![w] = NoBuf]

\* the branch taken when a call returns an error: the goroutine is about
\* to call log.Fatal
fail(w, call) ==
    /\ failure' = [failure EXCEPT ![w] = call]
    /\ pc' = [pc EXCEPT ![w] = "fatal"]
    /\ dropLocals(w)

\* lines 78-86: GetObject for (bucket, key); it returns an error or a
\* response whose Body is a stream still to be read
GetObject(w) ==
    /\ ~exited
    /\ pc[w] = "GetObject"
    /\ getLog' = getLog \cup
           {[Worker |-> w, Bucket |-> s3Entity[w].Bucket, Key |-> s3Entity[w].Key]}
    /\ \/ fail(w, "GetObject")
       \/ /\ pc' = [pc EXCEPT ![w] = "Process"]
          /\ UNCHANGED <<failure, img, labeledImage, buf>>
    /\ UNCHANGED <<s3Event, hpc, idx, record, wg, s3Entity, ext,
                   exited, putLog, harnessVars>>

\* lines 88-116 with the error of image.Decode logged and not fatal
ProcessDecodeErrorNotFatal(w) ==
    /\ ~exited
    /\ pc[w] = "Process"
    /\ \E b \in Bodies :
          LET point == placement(b.Max)
          IN  /\ img' = [img EXCEPT ![w] = b]
              /\ labeledImage' = [labeledImage EXCEPT ![w] =
                     addLabel(b, point[1], point[2], watermark)]
              /\ buf' = [buf EXCEPT ![w] =
                     [Codec |-> encoderFor(ext[w]),
                      Decoded |-> b.Format,
                      Label |-> watermark]]
              /\ pc' = [pc EXCEPT ![w] = "PutObject"]
              /\ failure' = [failure EXCEPT ![w] =
                     IF b.Format \in Formats THEN @ ELSE "Decode"]
    /\ UNCHANGED <<s3Event, hpc, idx, record, wg, s3Entity, ext,
                   exited, getLog, putLog, harnessVars>>

\* lines 88-116, the goroutine's work between its two requests:
\* image.Decode reads the body and sniffs its format (88-91); the anchor
\* is chosen from the bounds and addLabel draws the label (93-101); the
\* switch on ext picks the encoder, and an extension that matches no case
\* leaves buf empty (103-116).  Decoding fails on bytes of no registered
\* format, and either encoder can return an error.
Process(w) ==
    /\ ~exited
    /\ pc[w] = "Process"
    /\ \E b \in Bodies :
          IF b.Format \notin Formats
          THEN fail(w, "Decode")
          ELSE LET point == placement(b.Max)
                   labeled == addLabel(b, point[1], point[2], watermark)
               IN  \/ /\ encoderFor(ext[w]) # "none"
                      /\ fail(w, "Encode")
                   \/ /\ img' = [img EXCEPT ![w] = b]
                      /\ labeledImage' = [labeledImage EXCEPT ![w] = labeled]
                      /\ buf' = [buf EXCEPT ![w] =
                             IF encoderFor(ext[w]) = "none"
                             THEN NoBuf
                             ELSE [Codec |-> encoderFor(ext[w]),
                                   Decoded |-> b.Format,
                                   Label |-> labeled.Label]]
                      /\ pc' = [pc EXCEPT ![w] = "PutObject"]
                      /\ UNCHANGED failure
    /\ UNCHANGED <<s3Event, hpc, idx, record, wg, s3Entity, ext,
                   exited, getLog, putLog, harnessVars>>

\* the request of lines 118-123
putRequest(w) ==
    [Worker |-> w,
     Bucket |-> s3Entity[w].Bucket,
     Key |-> outputKey(s3Entity[w].Key),
     Body |-> buf[w],
     ContentType |-> contentType(ext[w])]

\* lines 118-128: PutObject; on success handleImage returns and the
\* deferred calls of lines 86 and 66 run
PutObject(w) ==
    /\ ~exited
    /\ pc[w] = "PutObject"
    /\ putLog' = putLog \cup {putRequest(w)}
    /\ \/ /\ fail(w, "PutObject")
          /\ wg' = wg
       \/ /\ pc' = [pc EXCEPT ![w] = "done"]
          /\ wg' = wgDone(wg)
          /\ failure' = failure
          /\ dropLocals(w)
    /\ UNCHANGED <<s3Event, hpc, idx, record, s3Entity, ext,
                   exited, getLog, harnessVars>>

\* the error branches with log.Print and a return in place of log.Fatal
FatalReturns(w) ==
    /\ ~exited
    /\ pc[w] = "fatal"
    /\ pc' = [pc EXCEPT ![w] = "done"]
    /\ wg' = wgDone(wg)
    /\ UNCHANGED <<s3Event, hpc, idx, record, s3Entity, ext, img,
                   labeledImage, buf, failure, exited, getLog, putLog,
                   harnessVars>>

\* lines 84, 90, 109, 114, 126: log.Fatal writes the message and calls
\* os.Exit(1); deferred calls do not run and every goroutine stops
Fatal(w) ==
    /\ ~exited
    /\ pc[w] = "fatal"
    /\ exited' = TRUE
    /\ UNCHANGED <<s3Event, hpc, idx, record, wg, workerVars, getLog, putLog,
                   harnessVars>>

handleImage(w) ==
    \/ Classify(w)
    \/ GetObject(w)
    \/ Process(w)
    \/ PutObject(w)
    \/ Fatal(w)

HandleRequest ==
    \/ Launch
    \/ Return

Next ==
    \/ HandleRequest
    \/ \E w \in Workers : handleImage(w)

Spec == Init /\ [][Next]_vars

\* the Go scheduler lets every runnable goroutine run: HandleRequest's
\* goroutine and each handleImage goroutine take their next step when it
\* stays possible
FairSpec ==
    /\ Spec
    /\ WF_vars(HandleRequest)
    /\ \A w \in Workers : WF_vars(handleImage(w))

----------------------------------------------------------------------------
(* A batch that carries an object of this program's own output prefix: the
   event source filters no key, so a PutObject of line 118 into the bucket
   the events come from is delivered as a record like any other upload. *)

KeyLabeledCat == labeledPrefix \o <<"c","a","t",".","P","N","G">>

RedeliveredRecords ==
    EventRecords \cup { [Bucket |-> "uploads", Key |-> KeyLabeledCat] }

InitRedelivered ==
    /\ s3Event \in UNION { [1..n -> RedeliveredRecords] : n \in 0..MaxBatch }
    /\ hpc = "loop"
    /\ idx = 0
    /\ record = NoRecord
    /\ wg = 0
    /\ pc = [w \in Workers |-> "idle"]
    /\ s3Entity = [w \in Workers |-> NoEntity]
    /\ ext = [w \in Workers |-> <<>>]
    /\ img = [w \in Workers |-> NoImage]
    /\ labeledImage = [w \in Workers |-> NoLabeled]
    /\ buf = [w \in Workers |-> NoBuf]
    /\ failure = [w \in Workers |-> "none"]
    /\ exited = FALSE
    /\ getLog = {}
    /\ putLog = {}
    /\ ckey = <<>>
    /\ cres = isImageFile(<<>>)
    /\ cout = outputKey(<<>>)
    /\ lcall = NoCall

SpecRedelivered == InitRedelivered /\ [][Next]_vars

----------------------------------------------------------------------------
(* The classifier applied to every key over a small alphabet *)

KeyAlphabet == {".", "/", "j", "p", "e", "g", "n", "P", "G", "x"}

InitClassify ==
    /\ s3Event = <<>>
    /\ hpc = "loop"
    /\ idx = 0
    /\ record = NoRecord
    /\ wg = 0
    /\ pc = [w \in Workers |-> "idle"]
    /\ s3Entity = [w \in Workers |-> NoEntity]
    /\ ext = [w \in Workers |-> <<>>]
    /\ img = [w \in Workers |-> NoImage]
    /\ labeledImage = [w \in Workers |-> NoLabeled]
    /\ buf = [w \in Workers |-> NoBuf]
    /\ failure = [w \in Workers |-> "none"]
    /\ exited = FALSE
    /\ getLog = {}
    /\ putLog = {}
    /\ ckey = <<>>
    /\ cres = isImageFile(<<>>)
    /\ cout = outputKey(<<>>)
    /\ lcall = NoCall

\* one more character of the key, and the classifier's answer for it
AppendChar(c) ==
    /\ Len(ckey) < MaxKeyLen
    /\ ckey' = Append(ckey, c)
    /\ cres' = isImageFile(ckey')
    /\ cout' = outputKey(ckey')
    /\ UNCHANGED <<s3Event, hpc, idx, record, wg, workerVars, exited, getLog,
                   putLog, lcall>>

NextClassify == \E c \in KeyAlphabet : AppendChar(c)

SpecClassify == InitClassify /\ [][NextClassify]_vars

----------------------------------------------------------------------------
(* addLabel at the level of pixels, lines 31-52.  A colour is the tuple
   <<r, g, b, a>> that Color.RGBA() returns: alpha-premultiplied samples of
   16 bits.  An image.RGBA stores 8 bits per sample. *)

\* largest width and height of the images the harness labels
MaxSide == 22

\* what image.Decode returns: images of 8 bits per sample, and of 16 bits
\* per sample (png of bit depth 16, decoded as RGBA64, NRGBA64 or Gray16)
ImageKinds == {"8-bit", "16-bit"}

\* the pixels of an image with bounds (0,0)-max, as image.Decode returns it
Rect(max) == (0..(max[1] - 1)) \X (0..(max[2] - 1))

\* the colour of pixel p of a decoded image: every pixel differs from its
\* neighbours, and a 16-bit sample has a low byte of its own
decodedAt(kind, p) ==
    IF kind = "8-bit"
    THEN <<257 * p[1], 257 * p[2], 0, 65535>>
    ELSE <<4660 + p[1], 4660 + p[2], 0, 65535>>

decoded(kind, max) ==
    [Max |-> max, Pix |-> [p \in Rect(max) |-> decodedAt(kind, p)]]

NoRGBA == [Max |-> <<0, 0>>, Pix |-> <<>>]

\* image.NewRGBA, line 33: every sample zero
NewRGBA(max) == [Max |-> max, Pix |-> [p \in Rect(max) |-> <<0, 0, 0, 0>>]]

\* color.RGBAModel: the high byte of every sample
rgbaModel(c) == <<c[1] \div 256, c[2] \div 256, c[3] \div 256, c[4] \div 256>>

\* RGBA.At(p).RGBA(): the colour a stored pixel stands for
rgbaAt(m, p) ==
    <<257 * m.Pix[p][1], 257 * m.Pix[p][2], 257 * m.Pix[p][3], 257 * m.Pix[p][4]>>

\* draw.Draw(dst, dst.Bounds(), src, sp, draw.Src), line 35: pixel p of dst
\* takes the pixel sp + p of src, converted to dst's colour model
drawSrc(dst, src, sp) ==
    [dst EXCEPT !.Pix =
        [p \in Rect(dst.Max) |->
            LET q == <<p[1] + sp[1], p[2] + sp[2]>>
            IN  IF q \in Rect(src.Max) THEN rgbaModel(src.Pix[q])
                ELSE dst.Pix[p]]]

\* basicfont.Face7x13, line 44: every glyph is a mask 6 wide and 13 high,
\* 11 rows of it above the baseline, and the dot advances by 7
FaceWidth == 6
FaceAdvance == 7
FaceAscent == 11
FaceDescent == 2

\* the masks stand for the font's bitmaps: every pixel of a glyph's cell,
\* or every second one
Faces == {"solid", "checked"}

\* pixel p is a glyph pixel of a label of n characters drawn with its dot at
\* the 26.6 fixed-point position dot
isGlyphPixel(face, dot, n, p) ==
    LET dx == p[1] - (dot[1] \div Int26_6)
        dy == p[2] - ((dot[2] \div Int26_6) - FaceAscent)
    IN  /\ dx >= 0 /\ dx < FaceAdvance * n
        /\ dx % FaceAdvance < FaceWidth
        /\ dy >= 0 /\ dy < FaceAscent + FaceDescent
        /\ (face = "solid" \/ (dx + dy) % 2 = 0)

\* color.RGBA{255, 0, 0, 255}, line 37
col == <<255, 0, 0, 255>>

\* Drawer.DrawString, lines 41-48: the uniform source colour is drawn through
\* each glyph's mask, clipped to the bounds of the destination
DrawString(dst, src, face, dot, label) ==
    [dst EXCEPT !.Pix =
        [p \in Rect(dst.Max) |->
            IF isGlyphPixel(face, dot, Len(label), p) THEN src
            ELSE dst.Pix[p]]]

\* handleImage calls addLabel on a decoded image with the anchor of lines
\* 93-101
InitLabel ==
    /\ s3Event = <<>>
    /\ hpc = "loop"
    /\ idx = 0
    /\ record = NoRecord
    /\ wg = 0
    /\ pc = [w \in Workers |-> "idle"]
    /\ s3Entity = [w \in Workers |-> NoEntity]
    /\ ext = [w \in Workers |-> <<>>]
    /\ img = [w \in Workers |-> NoImage]
    /\ labeledImage = [w \in Workers |-> NoLabeled]
    /\ buf = [w \in Workers |-> NoBuf]
    /\ failure = [w \in Workers |-> "none"]
    /\ exited = FALSE
    /\ getLog = {}
    /\ putLog = {}
    /\ ckey = <<>>
    /\ cres = isImageFile(<<>>)
    /\ cout = outputKey(<<>>)
    /\ \E kind \in ImageKinds, face \in Faces, width, height \in 1..MaxSide :
          LET point == placement(<<width, height>>)
          IN  lcall = [pc |-> "NewRGBA", kind |-> kind, face |-> face,
                       img |-> decoded(kind, <<width, height>>),
                       x |-> point[1], y |-> point[2], label |-> watermark,
                       rgba |-> NoRGBA]

labelFrame ==
    <<s3Event, hpc, idx, record, wg, workerVars, exited, getLog, putLog,
      ckey, cres, cout>>

\* line 33
LabelNewRGBA ==
    /\ lcall.pc = "NewRGBA"
    /\ lcall' = [lcall EXCEPT !.rgba = NewRGBA(lcall.img.Max), !.pc = "Draw"]
    /\ UNCHANGED labelFrame

\* line 35
LabelDraw ==
    /\ lcall.pc = "Draw"
    /\ lcall' = [lcall EXCEPT !.rgba = drawSrc(lcall.rgba, lcall.img, <<0, 0>>),
                              !.pc = "DrawString"]
    /\ UNCHANGED labelFrame

\* lines 37-50
LabelDrawString ==
    /\ lcall.pc = "DrawString"
    /\ lcall' =
          [lcall EXCEPT
              !.rgba = DrawString(lcall.rgba, col, lcall.face,
                                  <<lcall.x * Int26_6, lcall.y * Int26_6>>,
                                  lcall.label),
              !.pc = "return"]
    /\ UNCHANGED labelFrame

NextLabel ==
    \/ LabelNewRGBA
    \/ LabelDraw
    \/ LabelDrawString

SpecLabel == InitLabel /\ [][NextLabel]_vars

----------------------------------------------------------------------------
(* Properties *)

\* requests issued by goroutine w
getsOf(w) == {g \in getLog : g.Worker = w}
putsOf(w) == {p \in putLog : p.Worker = w}

\* C1: when HandleRequest has returned, the loop has launched a goroutine
\* for every record of the batch and every one of them has run its deferred
\* wg.Done, i.e. has left handleImage.
C1_ReturnAfterWorkers ==
    hpc = "returned" =>
        /\ idx = Len(s3Event)
        /\ \A w \in 1..Len(s3Event) : pc[w] = "done"

\* a batch of two or more records has returned after at least one store
C1_Witness ==
    /\ hpc = "returned"
    /\ Len(s3Event) >= 2
    /\ putLog # {}

\* goroutine w has copied its record
hasRecord(w) == pc[w] \notin {"idle", "start"}

\* C2: the goroutine launched in the i-th iteration reads the bucket and
\* the key of the i-th record of the batch.
C2_WorkerReadsOwnRecord ==
    \A w \in Workers : hasRecord(w) => s3Entity[w] = s3Event[w]

\* goroutine w has copied a record whose key names no supported image
skips(w) ==
    /\ hasRecord(w)
    /\ ~isImageFile(s3Entity[w].Key)[1]

\* C3: a goroutine whose record's key is not classified as a supported
\* image has returned and signalled the wait group (the counter is the
\* number of launched goroutines that have not returned) with no GetObject,
\* no PutObject and no error of its own; no GetObject is ever issued for
\* such a key, and the process exits only on another goroutine's error.
C3_UnsupportedSkipped ==
    /\ \A w \in Workers : skips(w) =>
          /\ pc[w] = "done"
          /\ getsOf(w) = {} /\ putsOf(w) = {}
          /\ failure[w] = "none"
          /\ wg = Cardinality({v \in 1..idx : pc[v] # "done"})
          /\ (exited => \E v \in Workers \ {w} : failure[v] # "none")
    /\ \A g \in getLog : isImageFile(g.Key)[1]

\* a goroutine read the key docs/readme.txt and returned, with no request
\* of its own, while another goroutine goes on to fetch its object
C3_Witness ==
    \E w, v \in Workers :
        /\ s3Entity[w].Key = KeyReadme
        /\ pc[w] = "done"
        /\ getsOf(w) = {} /\ putsOf(w) = {}
        /\ pc[v] = "Process"
        /\ ~exited

\* the last Len(e) characters of k are e up to letter case
endsWithFold(k, e) ==
    /\ Len(k) >= Len(e)
    /\ \A i \in 1..Len(e) : ToLowerChar(k[Len(k) - Len(e) + i]) = e[i]

\* C4: isImageFile answers (true, "jpg") for a key ending in .jpg in any
\* letter case, (true, "jpeg") for .jpeg, (true, "png") for .png, and
\* (false, "") for every other key.
C4_Classifier ==
    /\ endsWithFold(ckey, <<".","j","p","g">>) => cres = <<TRUE, <<"j","p","g">>>>
    /\ endsWithFold(ckey, <<".","j","p","e","g">>) => cres = <<TRUE, <<"j","p","e","g">>>>
    /\ endsWithFold(ckey, <<".","p","n","g">>) => cres = <<TRUE, <<"p","n","g">>>>
    /\ ( /\ ~endsWithFold(ckey, <<".","j","p","g">>)
         /\ ~endsWithFold(ckey, <<".","j","p","e","g">>)
         /\ ~endsWithFold(ckey, <<".","p","n","g">>) ) => cres = <<FALSE, <<>>>>

\* the key x.PnG was classified as png
C4_Witness ==
    /\ ckey = <<"x",".","P","n","G">>
    /\ cres = <<TRUE, <<"p","n","g">>>>

\* C5: the Dot handed to the drawer is the anchor (0,0) when bounds.Max.X
\* and bounds.Max.Y are both below 20, and the anchor (20,20) otherwise, in
\* 26.6 fixed point; the labelled image has the bounds of the decoded one.
C5_Placement ==
    \A w \in Workers : labeledImage[w] # NoLabeled =>
        LET width == img[w].Max[1]
            height == img[w].Max[2]
            dot == labeledImage[w].Dot
        IN  /\ (width < 20 /\ height < 20) => dot = <<0, 0>>
            /\ (width >= 20 \/ height >= 20) => dot = <<20 * 64, 20 * 64>>
            /\ labeledImage[w].Max = img[w].Max

\* an image 19 wide and 20 high was labelled at (20,20) and another, 10 by
\* 10, at (0,0)
C5_Witness ==
    /\ \E w \in Workers :
          img[w].Max = <<19, 20>> /\ labeledImage[w].Dot = <<1280, 1280>>
    /\ \E w \in Workers :
          img[w].Max = <<10, 10>> /\ labeledImage[w].Dot = <<0, 0>>

\* some call of goroutine w has returned an error
failed(w) == failure[w] # "none"

\* C6 as claimed: from the state in which a call of some goroutine has
\* returned an error, no goroutine issues a further GetObject or PutObject
\* and HandleRequest does not return.
C6_NoRequestAfterFailure ==
    [][ (\E w \in Workers : failed(w)) =>
            /\ getLog' = getLog
            /\ putLog' = putLog
            /\ hpc' # "returned"
      ]_vars

\* C6, amended: a goroutine whose call returned an error goes to
\* log.Fatal and nowhere else: it can issue no further request and never
\* signals the wait group, so HandleRequest has not returned and cannot;
\* once log.Fatal has called os.Exit, nothing runs any more.  (Between the
\* error and the exit, the other goroutines still run.)
C6_FatalEndsProcess ==
    /\ \A w \in Workers : failed(w) =>
          /\ pc[w] = "fatal"
          /\ ~ENABLED (GetObject(w) \/ PutObject(w))
          /\ wg > 0
    /\ (\E w \in Workers : failed(w)) => (hpc # "returned" /\ ~ENABLED Return)
    /\ exited => (\E w \in Workers : failed(w)) /\ ~ENABLED Next

\* the process has exited on a decode error while another goroutine was
\* about to store
C6_Witness ==
    /\ exited
    /\ \E w, v \in Workers :
          /\ failure[w] = "Decode"
          /\ pc[v] = "PutObject"

\* C7: a PutObject has been issued only by a goroutine whose GetObject,
\* decode, addLabel and encode succeeded before it, and it carries the
\* buffer encoded from the labelled image; a goroutine that has not yet
\* completed those steps, or that failed in one of them, has issued none.
C7_StoreAfterSuccess ==
    /\ \A p \in putLog :
          LET w == p.Worker
          IN  /\ pc[w] \in {"done", "fatal"}
              /\ failure[w] \in {"none", "PutObject"}
              /\ getsOf(w) # {}
              /\ p.Body.Decoded \in Formats
              /\ p.Body.Label = "This is watermark"
              /\ p.Body.Codec \in Formats
    /\ \A w \in Workers :
          /\ failure[w] \in {"GetObject", "Decode", "Encode"} => putsOf(w) = {}
          /\ pc[w] \in {"idle", "start", "GetObject", "Process", "PutObject"}
                 => putsOf(w) = {}
          /\ pc[w] = "PutObject" =>
                 /\ getsOf(w) # {}
                 /\ img[w] \in Images
                 /\ labeledImage[w].Max = img[w].Max
                 /\ labeledImage[w].Label = "This is watermark"
                 /\ buf[w].Codec \in Formats
                 /\ buf[w].Decoded = img[w].Format
                 /\ buf[w].Label = labeledImage[w].Label

\* one goroutine has stored its output while another failed to decode and
\* stored nothing
C7_Witness ==
    \E w, v \in Workers :
        /\ putsOf(w) # {}
        /\ failure[v] = "Decode"
        /\ putsOf(v) = {}

\* n is the file name of key k: the part of k after its last "/"
fileNameOf(n, k) ==
    /\ Len(n) <= Len(k)
    /\ SubSeq(k, Len(k) - Len(n) + 1, Len(k)) = n
    /\ \A i \in 1..Len(n) : n[i] # "/"
    /\ (Len(n) = Len(k) \/ k[Len(k) - Len(n)] = "/")

\* C8: every PutObject goes to the bucket of the goroutine's record, under
\* the key "labeled-images/" followed by the file name of the record's key,
\* letter case kept: photos/cat.PNG gives labeled-images/cat.PNG.
C8_OutputKey ==
    \A p \in putLog :
        LET e == s3Entity[p.Worker]
        IN  /\ p.Bucket = e.Bucket
            /\ Len(p.Key) > 15
            /\ SubSeq(p.Key, 1, 15) =
                   <<"l","a","b","e","l","e","d","-","i","m","a","g","e","s","/">>
            /\ fileNameOf(SubSeq(p.Key, 16, Len(p.Key)), e.Key)
            /\ (e.Key = KeyCatPNG =>
                   SubSeq(p.Key, 16, Len(p.Key)) = <<"c","a","t",".","P","N","G">>)

\* photos/cat.PNG of bucket uploads was stored as labeled-images/cat.PNG
C8_Witness ==
    \E p \in putLog :
        /\ s3Entity[p.Worker] = [Bucket |-> "uploads", Key |-> KeyCatPNG]
        /\ p.Bucket = "uploads"
        /\ SubSeq(p.Key, 16, Len(p.Key)) = <<"c","a","t",".","P","N","G">>

\* the part of k after its last ".", in lower case
lowerSuffix(k) ==
    LET dots == {i \in 1..Len(k) : k[i] = "."}
        last == CHOOSE i \in dots : \A j \in dots : j <= i
    IN  IF dots = {} THEN <<>>
        ELSE [i \in 1..(Len(k) - last) |-> ToLowerChar(k[last + i])]

\* C9: every PutObject has the content type "image/" followed by the
\* extension of the record's key in lower case, jpg staying jpg:
\* photos/cat.PNG is stored as image/png and photos/dog.jpg as image/jpg.
C9_ContentType ==
    \A p \in putLog :
        LET k == s3Entity[p.Worker].Key
        IN  /\ p.ContentType = <<"i","m","a","g","e","/">> \o lowerSuffix(k)
            /\ (k = KeyCatPNG =>
                   p.ContentType = <<"i","m","a","g","e","/","p","n","g">>)
            /\ (k = KeyDogJpg =>
                   p.ContentType = <<"i","m","a","g","e","/","j","p","g">>)

\* photos/dog.jpg was stored as image/jpg and photos/cat.PNG as image/png
C9_Witness ==
    /\ \E p \in putLog :
          /\ s3Entity[p.Worker].Key = KeyDogJpg
          /\ p.ContentType = <<"i","m","a","g","e","/","j","p","g">>
    /\ \E p \in putLog :
          /\ s3Entity[p.Worker].Key = KeyCatPNG
          /\ p.ContentType = <<"i","m","a","g","e","/","p","n","g">>

\* the codec a lower-case extension stands for
codecOf(e) ==
    IF e = <<"p","n","g">> THEN "png"
    ELSE IF e \in { <<"j","p","g">>, <<"j","p","e","g">> } THEN "jpeg"
    ELSE "other"

\* C10: every stored output is encoded with the codec of the key's
\* extension, and that codec is the format image.Decode found in the
\* fetched bytes: no format conversion occurs.
C10_NoFormatConversion ==
    \A p \in putLog :
        /\ p.Body.Codec = codecOf(lowerSuffix(s3Entity[p.Worker].Key))
        /\ p.Body.Codec = p.Body.Decoded

\* the records of the batch have pairwise distinct keys
distinctKeys ==
    \A i, j \in 1..Len(s3Event) : s3Event[i].Key = s3Event[j].Key => i = j

\* C11: over a batch whose records have pairwise distinct keys, at most one
\* PutObject is issued for every pair of bucket and output key.
C11_WrittenOnce ==
    distinctKeys =>
        \A p, q \in putLog : (p.Bucket = q.Bucket /\ p.Key = q.Key) => p = q

\* C12: no GetObject of a batch names a bucket and key that a PutObject of
\* the same batch names: an output object is never read back.
C12_NeverReadBack ==
    \A g \in getLog : \A p \in putLog :
        ~(g.Bucket = p.Bucket /\ g.Key = p.Key)

\* C13: under fair scheduling, unless a GetObject, decode, encode or
\* PutObject fails, HandleRequest eventually returns, whatever the batch:
\* empty, or mixing supported and unsupported keys.
C13_BatchReturns ==
    <>(hpc = "returned" \/ \E w \in Workers : failure[w] # "none")

\* a batch of a supported and an unsupported key has returned with no
\* failure: one goroutine stored its output, the other returned early
C13_Witness ==
    /\ hpc = "returned"
    /\ \A w \in Workers : failure[w] = "none"
    /\ \E w, v \in Workers :
          /\ isImageFile(s3Entity[w].Key)[1] /\ putsOf(w) # {}
          /\ hasRecord(v) /\ ~isImageFile(s3Entity[v].Key)[1]

\* C14: for every key that isImageFile accepts, the extension it returns is
\* png, jpeg or jpg and selects an encoder in the switch of lines 105-116:
\* the fallthrough that would leave the buffer empty is not taken.
C14_EncoderSelected ==
    cres[1] =>
        /\ cres[2] \in { <<"p","n","g">>, <<"j","p","e","g">>, <<"j","p","g">> }
        /\ encoderFor(cres[2]) \in Formats

\* the key x.jPG passed the gate with the extension jpg, which selects the
\* jpeg encoder
C14_Witness ==
    /\ ckey = <<"x",".","j","P","G">>
    /\ cres = <<TRUE, <<"j","p","g">>>>
    /\ encoderFor(cres[2]) = "jpeg"

\* the anchor of goroutine w's labelled image, in pixels
anchorOf(w) ==
    <<labeledImage[w].Dot[1] \div Int26_6, labeledImage[w].Dot[2] \div Int26_6>>

\* the anchor lies within the bounds of the decoded image
anchorInside(w) ==
    /\ anchorOf(w)[1] <= img[w].Max[1]
    /\ anchorOf(w)[2] <= img[w].Max[2]

\* C15 as claimed: for every decoded image the anchor chosen lies within
\* the image's bounds, x <= width and y <= height.
C15_AnchorInside ==
    \A w \in Workers : labeledImage[w] # NoLabeled => anchorInside(w)

\* C15, amended: the anchor lies within the image's bounds when width and
\* height are both below 20 or both at least 20; an image with exactly one
\* of them below 20 is anchored at (20,20), beyond that side.
C15_AnchorInsideUnlessMixed ==
    \A w \in Workers : labeledImage[w] # NoLabeled =>
        LET width == img[w].Max[1]
            height == img[w].Max[2]
        IN  /\ ((width < 20) <=> (height < 20)) => anchorInside(w)
            /\ ((width < 20) <=> (height >= 20)) =>
                   /\ anchorOf(w) = <<20, 20>>
                   /\ ~anchorInside(w)

\* an image 800 by 600 was anchored at (20,20), inside it, and an image 20
\* wide and 19 high at (20,20), below its last row
C15_Witness ==
    /\ \E w \in Workers :
          /\ img[w].Max = <<800, 600>>
          /\ anchorOf(w) = <<20, 20>> /\ anchorInside(w)
    /\ \E w \in Workers :
          /\ img[w].Max = <<20, 19>>
          /\ anchorOf(w) = <<20, 20>> /\ ~anchorInside(w)

\* pixel p is a glyph pixel of the call's label
glyphAt(p) ==
    isGlyphPixel(lcall.face, <<lcall.x * Int26_6, lcall.y * Int26_6>>,
                 Len(lcall.label), p)

\* C16: when addLabel returns, its argument is the image it was given, and
\* the image returned has the same bounds; in it every pixel that is no
\* glyph pixel of the label equals the input's pixel at the same place, and
\* every glyph pixel within the bounds is opaque red (255,0,0,255); no
\* pixel exists outside the bounds.
C16_FrameEffect ==
    lcall.pc = "return" =>
        /\ lcall.img = decoded(lcall.kind, lcall.img.Max)
        /\ lcall.rgba.Max = lcall.img.Max
        /\ DOMAIN lcall.rgba.Pix = Rect(lcall.img.Max)
        /\ \A p \in Rect(lcall.img.Max) :
              IF glyphAt(p)
              THEN lcall.rgba.Pix[p] = <<255, 0, 0, 255>>
              ELSE rgbaAt(lcall.rgba, p) = lcall.img.Pix[p]

\* C17: for every key that isImageFile accepts with extension e, the
\* PutObject key built from it, labeled-images/<base of the key>, is
\* accepted with the same extension e, and the PutObject key built from
\* that key is the same key again.
C17_OutputKeyClosed ==
    cres[1] =>
        /\ isImageFile(cout) = cres
        /\ outputKey(cout) = cout

\* the key /.PnG gave labeled-images/.PnG, which is classified as png and
\* maps to itself
C17_Witness ==
    /\ ckey = <<"/",".","P","n","G">>
    /\ cout = labeledPrefix \o <<".","P","n","G">>
    /\ isImageFile(cout) = <<TRUE, <<"p","n","g">>>>
    /\ outputKey(cout) = cout

\* the goroutines launched that have not yet run their deferred wg.Done
running == {w \in 1..idx : pc[w] # "done"}

\* C18: the WaitGroup counter is never negative and is the number of
\* goroutines launched that have not signalled completion; wg.Wait can
\* return only with the loop over and no launched goroutine still running.
C18_CounterCountsRunning ==
    /\ wg >= 0
    /\ wg = Cardinality(running)
    /\ \A w \in Workers : (pc[w] = "idle") <=> (w > idx)
    /\ (ENABLED Return) => (idx = Len(s3Event) /\ running = {})
    /\ hpc = "returned" => (idx = Len(s3Event) /\ running = {} /\ wg = 0)

\* with a record still to be launched the counter is zero, the first
\* goroutine having returned, and HandleRequest cannot return
C18_Witness ==
    /\ hpc = "loop"
    /\ idx = 1 /\ Len(s3Event) = 2
    /\ pc[1] = "done"
    /\ wg = 0
    /\ ~ENABLED Return

====
